---- MODULE Spec2Model ----
(***************************************************************************)
(* A model of re64, a RISC-V emulator: the fetch/execute loop of main.rs   *)
(* (struct CPU), the instruction classifier and the per-format extractors  *)
(* of instruction.rs, and the hart of core.rs.                             *)
(*                                                                         *)
(* TLC's integers are 32-bit signed, so the unsigned machine words are not *)
(* integers here.  A u32 is a function from bit positions 0..31 to {0,1};  *)
(* a u64 is a tuple of four 16-bit limbs, least significant first.  An i32 *)
(* and every small index are ordinary integers.                            *)
(***************************************************************************)
EXTENDS Integers, Sequences, FiniteSets, TLC

VARIABLES
    regs,         \* CPU.regs: [u64; 32]
    pc,           \* CPU.pc
    dram,         \* CPU.dram: the program image, a sequence of bytes
    instruction,  \* main's local `instruction`: the word last fetched
    at,           \* where main is: "loop", "done" (registers dumped), "panicked"
    steps,        \* completed iterations of main's while loop
    word,         \* the InstructionBytes handed to the decoder
    decoded,      \* what the decoder function applied to `word` returned
    hart          \* the Hart of core.rs: "runnable" or "panicked"

vars == <<regs, pc, dram, instruction, at, steps, word, decoded, hart>>

cpuVars == <<regs, pc, dram, instruction, at, steps>>

decVars == <<word, decoded, hart>>

(***************************************************************************)
(* Bounds of the model.                                                    *)
(***************************************************************************)
\* Longest program image, in whole instruction words.
MaxWords == 2

\* Most bytes that may follow the last whole word of an image (a partial word).
MaxTail == 2

(***************************************************************************)
(* u32 arithmetic: the operators the code applies to instruction words.    *)
(***************************************************************************)
Pow2(n) == 2 ^ n

\* The u32 whose upper and lower 16-bit halves are hi and lo (0xHHHH_LLLL).
U32(hi, lo) ==
    [i \in 0..31 |-> IF i < 16 THEN (lo \div Pow2(i)) % 2
                               ELSE (hi \div Pow2(i - 16)) % 2]

\* a & b
And(a, b) == [i \in 0..31 |-> a[i] * b[i]]

\* a | b
Or(a, b) == [i \in 0..31 |-> IF a[i] + b[i] > 0 THEN 1 ELSE 0]

\* a >> n on a u32 (logical)
Shr(a, n) == [i \in 0..31 |-> IF i + n <= 31 THEN a[i + n] ELSE 0]

\* a << n on a u32 (bits shifted past bit 31 are lost)
Shl(a, n) == [i \in 0..31 |-> IF i >= n THEN a[i - n] ELSE 0]

\* a != 0
NonZero(a) == \E i \in 0..31 : a[i] = 1

RECURSIVE SumBits(_, _)
\* The value of bits 0..n of a, as a natural number (n <= 30).
SumBits(a, n) == IF n < 0 THEN 0 ELSE a[n] * Pow2(n) + SumBits(a, n - 1)

\* `a as i32`: the two's-complement reading of the 32 bits.
AsI32(a) == (SumBits(a, 30) - a[31] * Pow2(30)) - a[31] * Pow2(30)

\* `a as usize`, for the masked values the code converts (all below 2^31).
AsUsize(a) == SumBits(a, 30)

(***************************************************************************)
(* u64 arithmetic: the register file.                                      *)
(***************************************************************************)
Limb == Pow2(16)

\* The u64 of a natural number below 2^31.
U64(n) == <<n % Limb, n \div Limb, 0, 0>>

\* `x as i64 as u64` for x in the i32 range: sign-extension to 64 bits.
I64AsU64(x) ==
    LET fill == IF x < 0 THEN Limb - 1 ELSE 0
    IN  <<x % Limb, (x \div Limb) % Limb, fill, fill>>

\* u64::wrapping_add
wrapping_add(a, b) ==
    LET s0 == a[1] + b[1]
        s1 == a[2] + b[2] + (s0 \div Limb)
        s2 == a[3] + b[3] + (s1 \div Limb)
        s3 == a[4] + b[4] + (s2 \div Limb)
    IN  <<s0 % Limb, s1 % Limb, s2 % Limb, s3 % Limb>>

(***************************************************************************)
(* main.rs: struct CPU.                                                    *)
(***************************************************************************)
\* pub const DRAM_SIZE: u64 = 1024 * 1024 * 128
DRAM_SIZE == 134217728

\* CPU::new: the register file a new CPU starts with.
CPUNew == [i \in 0..31 |-> IF i = 2 THEN U64(DRAM_SIZE) ELSE U64(0)]

\* u32::from_le_bytes
from_le_bytes(b) ==
    [i \in 0..31 |-> (b[(i \div 8) + 1] \div Pow2(i % 8)) % 2]

\* The indices CPU::fetch reads: self.dram[index] .. self.dram[index + 3].
\* Rust's Vec is 0-based; the sequence dram is 1-based.
FetchInBounds(d, p) == p + 3 < Len(d)

\* CPU::fetch, when every index is in bounds.
fetch(d, p) == from_le_bytes(<<d[p + 1], d[p + 2], d[p + 3], d[p + 4]>>)

\* execute with the add arm writing rs2 alone (the rs1 operand dropped).
execute_AddDropsRs1(r, ins) ==
    LET opcode == AsUsize(And(ins, U32(0, 127)))
        rd     == AsUsize(And(Shr(ins, 7), U32(0, 31)))
        rs1    == AsUsize(And(Shr(ins, 15), U32(0, 31)))
        rs2    == AsUsize(And(Shr(ins, 20), U32(0, 31)))
        r0     == [r EXCEPT ![0] = U64(0)]
    IN  CASE opcode = 19 ->
                 LET imm == I64AsU64(AsI32(And(ins, U32(65520, 0))) \div Pow2(20))
                 IN  [r0 EXCEPT ![rd] = wrapping_add(r0[rs1], imm)]
          [] opcode = 51 ->
                 [r0 EXCEPT ![rd] = r0[rs2]]
          [] OTHER -> r0

\* CPU::execute's `rd`, `rs1`, `rs2`: the register indices it extracts.
execute_rd(ins) == AsUsize(And(Shr(ins, 7), U32(0, 31)))

execute_rs1(ins) == AsUsize(And(Shr(ins, 15), U32(0, 31)))

execute_rs2(ins) == AsUsize(And(Shr(ins, 20), U32(0, 31)))

\* execute's imm with the shift made on the u32 (logical, no sign extension).
execute_imm_LogicalShift(ins) ==
    I64AsU64(AsI32(Shr(And(ins, U32(65520, 0)), 20)))

\* CPU::execute's `imm` in the addi arm:
\* ((instruction & 0xfff00000) as i32 as i64 >> 20) as u64
execute_imm(ins) ==
    I64AsU64(AsI32(And(ins, U32(65520, 0))) \div Pow2(20))

\* CPU::execute: the register file after executing `ins` on register file r.
execute(r, ins) ==
    LET opcode == AsUsize(And(ins, U32(0, 127)))
        rd     == execute_rd(ins)
        rs1    == execute_rs1(ins)
        rs2    == execute_rs2(ins)
        r0     == [r EXCEPT ![0] = U64(0)]
    IN  CASE opcode = 19 ->   \* 0x13, addi
                 LET imm == execute_imm(ins)
                 IN  [r0 EXCEPT ![rd] = wrapping_add(r0[rs1], imm)]
          [] opcode = 51 ->   \* 0x33, add
                 [r0 EXCEPT ![rd] = wrapping_add(r0[rs1], r0[rs2])]
          [] OTHER -> r0      \* dbg!("not implemented yet")

(***************************************************************************)
(* The program images the model runs: up to MaxWords instruction words     *)
(* taken from ProgramWords, then up to MaxTail bytes of a partial word.    *)
(***************************************************************************)
ADDI_X1_X0_5  == U32(80, 147)        \* 0x00500093  addi x1, x0, 5
ADD_X2_X2_X1  == U32(17, 307)        \* 0x00110133  add  x2, x2, x1
ADDI_X0_X0_5  == U32(80, 19)         \* 0x00500013  addi x0, x0, 5
ADD_X0_X2_X1  == U32(17, 51)         \* 0x00110033  add  x0, x2, x1
ADD_X3_X2_X1  == U32(17, 435)        \* 0x001101B3  add  x3, x2, x1
SUB_X3_X2_X1  == U32(16401, 435)     \* 0x401101B3  sub  x3, x2, x1
BEQ_X0_X0_8   == U32(0, 1123)        \* 0x00000463  beq  x0, x0, +8
BNE_X0_X0_8   == U32(0, 5219)        \* 0x00001463  bne  x0, x0, +8
FENCE         == U32(0, 15)          \* 0x0000000F  fence
ECALL         == U32(0, 115)         \* 0x00000073  ecall
ADDI_X5_X0_M1 == U32(65520, 659)     \* 0xFFF00293  addi x5, x0, -1
ALL_ONES      == U32(65535, 65535)   \* 0xFFFFFFFF  opcode 0b1111111, unassigned

ProgramWords ==
    { ADDI_X1_X0_5, ADD_X2_X2_X1, ADDI_X0_X0_5, ADD_X0_X2_X1, ADD_X3_X2_X1,
      SUB_X3_X2_X1, BEQ_X0_X0_8, BNE_X0_X0_8, FENCE, ECALL, ADDI_X5_X0_M1,
      ALL_ONES }

\* The four bytes of a word, least significant first (the image file's layout).
to_le_bytes(w) ==
    [k \in 1..4 |->
        LET b(j) == w[8 * (k - 1) + j] * Pow2(j)
        IN  b(0) + b(1) + b(2) + b(3) + b(4) + b(5) + b(6) + b(7)]

RECURSIVE Image(_)
\* The bytes of a sequence of words.
Image(ws) == IF ws = <<>> THEN <<>> ELSE to_le_bytes(Head(ws)) \o Image(Tail(ws))

WordSeqs == UNION { [1..n -> ProgramWords] : n \in 0..MaxWords }

Tails == { [k \in 1..n |-> 0] : n \in 0..(IF MaxTail > 3 THEN 3 ELSE MaxTail) }

Images == { Image(ws) \o t : ws \in WordSeqs, t \in Tails }

\* No word fetched yet.
NoWord == <<>>

(***************************************************************************)
(* main: the fetch, decode, execute cycle.                                 *)
(***************************************************************************)
CPUInit ==
    /\ dram \in Images
    /\ regs = CPUNew
    /\ pc = 0
    /\ instruction = NoWord
    /\ at = "loop"
    /\ steps = 0

\* One iteration of `while cpu.pc < cpu.dram.len()`: fetch, pc += 4, execute.
Step ==
    /\ at = "loop"
    /\ pc < Len(dram)
    /\ FetchInBounds(dram, pc)
    /\ instruction' = fetch(dram, pc)
    /\ pc' = pc + 4
    /\ regs' = execute(regs, fetch(dram, pc))
    /\ steps' = steps + 1
    /\ UNCHANGED <<dram, at>>

\* An iteration whose fetch indexes dram out of bounds: Rust panics.
FetchPanic ==
    /\ at = "loop"
    /\ pc < Len(dram)
    /\ ~FetchInBounds(dram, pc)
    /\ at' = "panicked"
    /\ UNCHANGED <<regs, pc, dram, instruction, steps>>

\* The loop ends and main calls cpu.dump_registers(), which prints regs as is.
DumpRegisters ==
    /\ at = "loop"
    /\ pc >= Len(dram)
    /\ at' = "done"
    /\ UNCHANGED <<regs, pc, dram, instruction, steps>>

(***************************************************************************)
(* instruction.rs: InstructionBytes and the per-format extractors.         *)
(***************************************************************************)
\* `x as u32` for an i32 x: the same 32 bits.
I32AsU32(x) ==
    [i \in 0..31 |-> IF i = 31 THEN (IF x < 0 THEN 1 ELSE 0)
                               ELSE (x \div Pow2(i)) % 2]

\* InstructionBytes::opcode
opcode(w) == AsUsize(And(w, U32(0, 127)))

\* InstructionBytes::funct3
funct3(w) == AsUsize(And(Shr(w, 12), U32(0, 7)))

\* The test every signed extractor makes: (instruction.0 & 0x8000_0000) != 0
SignBitSet(w) == NonZero(And(w, U32(32768, 0)))

\* impl From<InstructionBytes> for RFormat
RFormatFrom(w) ==
    [ funct3 |-> AsUsize(And(Shr(w, 12), U32(0, 7))),
      funct7 |-> AsUsize(And(Shr(w, 25), U32(0, 127))),
      rs1    |-> AsUsize(And(Shr(w, 15), U32(0, 31))),
      rs2    |-> AsUsize(And(Shr(w, 20), U32(0, 31))),
      rd     |-> AsUsize(And(Shr(w, 7), U32(0, 31))),
      opcode |-> AsUsize(And(w, U32(0, 127))) ]

\* IFormat::from with the mask 0xfff in place of 0x7ff: bit 31 counted twice.
IFormatFrom_WideMask(w) ==
    LET uimm == AsI32(And(Shr(w, 20), U32(0, 4095)))
        imm  == IF SignBitSet(w) THEN uimm - Pow2(11) ELSE uimm
    IN  [ imm    |-> imm,
          funct3 |-> funct3(w),
          rs1    |-> AsUsize(And(Shr(w, 15), U32(0, 31))),
          rd     |-> AsUsize(And(Shr(w, 7), U32(0, 31))),
          opcode |-> opcode(w) ]

\* impl From<InstructionBytes> for IFormat
IFormatFrom(w) ==
    LET uimm == AsI32(And(Shr(w, 20), U32(0, 2047)))               \* 0x7ff
        imm  == IF SignBitSet(w) THEN uimm - Pow2(11) ELSE uimm
    IN  [ imm    |-> imm,
          funct3 |-> funct3(w),
          rs1    |-> AsUsize(And(Shr(w, 15), U32(0, 31))),
          rd     |-> AsUsize(And(Shr(w, 7), U32(0, 31))),
          opcode |-> opcode(w) ]

\* impl From<InstructionBytes> for ISType
ISTypeFrom(w) ==
    LET i     == IFormatFrom(w)
        shamt == AsUsize(And(I32AsU32(i.imm), U32(0, 31)))
    IN  [ imm    |-> AsUsize(And(Shr(w, 25), U32(0, 127))),
          shamt  |-> shamt,
          funct3 |-> i.funct3,
          rs1    |-> i.rs1,
          rd     |-> i.rd,
          opcode |-> AsUsize(And(w, U32(0, 127))) ]

\* impl From<InstructionBytes> for SFormat
SFormatFrom(w) ==
    LET uimm == AsI32(Or(And(Shr(w, 20), U32(0, 2016)),            \* 0x7e0
                         And(Shr(w, 7), U32(0, 31))))              \* 0x1f
        imm  == IF SignBitSet(w) THEN uimm - Pow2(11) ELSE uimm
    IN  [ imm    |-> imm,
          rs1    |-> AsUsize(And(Shr(w, 15), U32(0, 31))),
          rs2    |-> AsUsize(And(Shr(w, 20), U32(0, 31))),
          funct3 |-> AsUsize(And(Shr(w, 12), U32(0, 7))),
          opcode |-> AsUsize(And(w, U32(0, 127))) ]

\* BFormat::from with the mask 0x1f in place of 0x1e: bit 7 kept as imm[0].
BFormatFrom_OddMask(w) ==
    LET uimm == AsI32(Or(Or(And(Shr(w, 20), U32(0, 2016)),
                            And(Shr(w, 7), U32(0, 31))),
                         Shl(And(w, U32(0, 128)), 4)))
        imm  == IF SignBitSet(w) THEN uimm - Pow2(12) ELSE uimm
    IN  [ imm    |-> imm,
          rs1    |-> AsUsize(And(Shr(w, 15), U32(0, 31))),
          rs2    |-> AsUsize(And(Shr(w, 20), U32(0, 31))),
          funct3 |-> AsUsize(And(Shr(w, 12), U32(0, 7))),
          opcode |-> AsUsize(And(w, U32(0, 127))) ]

\* impl From<InstructionBytes> for BFormat
BFormatFrom(w) ==
    LET uimm == AsI32(Or(Or(And(Shr(w, 20), U32(0, 2016)),         \* 0x7e0
                            And(Shr(w, 7), U32(0, 30))),           \* 0x1e
                         Shl(And(w, U32(0, 128)), 4)))             \* 0x80
        imm  == IF SignBitSet(w) THEN uimm - Pow2(12) ELSE uimm
    IN  [ imm    |-> imm,
          rs1    |-> AsUsize(And(Shr(w, 15), U32(0, 31))),
          rs2    |-> AsUsize(And(Shr(w, 20), U32(0, 31))),
          funct3 |-> AsUsize(And(Shr(w, 12), U32(0, 7))),
          opcode |-> AsUsize(And(w, U32(0, 127))) ]

\* impl From<InstructionBytes> for UFormat
UFormatFrom(w) ==
    [ imm    |-> AsI32(And(w, U32(65535, 61440))),                 \* 0xffff_f000
      rd     |-> AsUsize(And(Shr(w, 7), U32(0, 31))),
      opcode |-> AsUsize(And(w, U32(0, 127))) ]

\* impl From<InstructionBytes> for JFormat
JFormatFrom(w) ==
    LET uimm == AsI32(Or(Or(And(w, U32(15, 61440)),                \* 0xff000
                            Shr(And(w, U32(16, 0)), 9)),           \* 0x100000
                         And(Shr(w, 20), U32(0, 2046))))           \* 0x7fe
        imm  == IF SignBitSet(w) THEN uimm - Pow2(20) ELSE uimm
    IN  [ imm    |-> imm,
          rd     |-> AsUsize(And(Shr(w, 7), U32(0, 31))),
          opcode |-> AsUsize(And(w, U32(0, 127))) ]

(***************************************************************************)
(* instruction.rs: the classifier, impl From<InstructionBytes> for         *)
(* Instruction.  The patterns of its match are written in the source as    *)
(* 0110111, 0010111, ...: Rust reads an integer literal with leading zeros *)
(* in base ten (binary needs the prefix 0b), so they are the numbers       *)
(* 110111, 10111, ... below, and 001 and 101 are 1 and 101.  The arms are  *)
(* tried in order; the last one is unimplemented!(), a panic.              *)
(***************************************************************************)
InstructionFrom(w) ==
    LET op == opcode(w)
        f3 == funct3(w)
    IN  IF      op = 110111           THEN [tag |-> "U", fmt |-> UFormatFrom(w)]  \* LUI
        ELSE IF op = 10111            THEN [tag |-> "U", fmt |-> UFormatFrom(w)]  \* AUIPC
        ELSE IF op = 1101111          THEN [tag |-> "J", fmt |-> JFormatFrom(w)]  \* JAL
        ELSE IF op = 1100111          THEN [tag |-> "I", fmt |-> IFormatFrom(w)]  \* JALR
        ELSE IF op = 1100011          THEN [tag |-> "B", fmt |-> BFormatFrom(w)]  \* BEQ ...
        ELSE IF op = 11               THEN [tag |-> "I", fmt |-> IFormatFrom(w)]  \* LB ...
        ELSE IF op = 10011 /\ f3 = 1  THEN [tag |-> "S", fmt |-> SFormatFrom(w)]  \* SLLI
        ELSE IF op = 10011 /\ f3 = 101 THEN [tag |-> "S", fmt |-> SFormatFrom(w)] \* SRLI, SRAI
        ELSE IF op = 10011            THEN [tag |-> "I", fmt |-> IFormatFrom(w)]  \* ADDI ...
        ELSE IF op = 100011           THEN [tag |-> "S", fmt |-> SFormatFrom(w)]  \* SB, SH, SW
        ELSE IF op = 110011           THEN [tag |-> "R", fmt |-> RFormatFrom(w)]  \* ADD ...
        ELSE IF op = 1111             THEN [tag |-> "NOP", fmt |-> w]             \* FENCE
        ELSE IF op = 1110011          THEN [tag |-> "NOP", fmt |-> w]             \* ECALL ...
        ELSE [tag |-> "panic", fmt |-> "unimplemented"]

(***************************************************************************)
(* core.rs: the Hart.  Hart::step evaluates unimplemented!() to obtain the *)
(* instruction, and every process_* of its InstructionProcessor is         *)
(* todo!(): whichever is called, the call panics.                          *)
(***************************************************************************)
\* Hart::step
step(h) == "panicked"

\* Hart::process_r, process_i, process_s, process_b, process_u, process_j
process(h, tag) == "panicked"

(***************************************************************************)
(* The words handed to the decoder: every opcode of DecodeOpcodes under    *)
(* every pattern of bits 7..31 that has at most MaxHot bits set, or at     *)
(* most MaxHot bits clear; and the words of ProgramWords.                  *)
(***************************************************************************)
\* Most bits of 7..31 that differ from the rest of them in a decoder word.
MaxHot == 1

\* The base opcodes of RV32I (0x37 0x17 0x6f 0x67 0x63 0x03 0x13 0x23 0x33
\* 0x0f 0x73), the unassigned 0x7f, and 0x0b.
DecodeOpcodes == {55, 23, 111, 103, 99, 3, 19, 35, 51, 15, 115, 127, 11}

RECURSIVE HotSets(_)
HotSets(k) ==
    IF k = 0 THEN {{}}
    ELSE HotSets(k - 1) \cup { s \cup {b} : s \in HotSets(k - 1), b \in 7..31 }

PatternWord(op, hot, v) ==
    [i \in 0..31 |-> IF i < 7 THEN (op \div Pow2(i)) % 2
                     ELSE IF i \in hot THEN v ELSE 1 - v]

DecodeWords ==
    { PatternWord(op, hot, v) : op \in DecodeOpcodes, hot \in HotSets(MaxHot), v \in 0..1 }
        \cup ProgramWords

(***************************************************************************)
(* The decoder functions, each applied to a word.                          *)
(***************************************************************************)
\* A panic ends the process: nothing is applied after one.
Apply(fn, out) ==
    /\ hart = "runnable"
    /\ decoded.fn = "none"
    /\ decoded' = [fn |-> fn, out |-> out]
    /\ UNCHANGED <<word, hart>>

Classify == Apply("Instruction", InstructionFrom(word))

ExtractR == Apply("RFormat", RFormatFrom(word))

ExtractI == Apply("IFormat", IFormatFrom(word))

ExtractIS == Apply("ISType", ISTypeFrom(word))

ExtractS == Apply("SFormat", SFormatFrom(word))

ExtractB == Apply("BFormat", BFormatFrom(word))

ExtractU == Apply("UFormat", UFormatFrom(word))

ExtractJ == Apply("JFormat", JFormatFrom(word))

\* The extraction CPU::execute makes from a word before its match.
ExtractExecute ==
    Apply("execute", [ imm |-> execute_imm(word),
                       rd  |-> execute_rd(word),
                       rs1 |-> execute_rs1(word),
                       rs2 |-> execute_rs2(word) ])

\* A call of Hart::step.
HartStep ==
    /\ hart = "runnable"
    /\ decoded.fn = "none"
    /\ hart' = step(hart)
    /\ UNCHANGED <<word, decoded>>

\* A call of one of Hart's process_* on a classified instruction.
HartProcess ==
    /\ hart = "runnable"
    /\ decoded.fn = "Instruction"
    /\ decoded.out.tag \in {"R", "I", "S", "B", "U", "J"}
    /\ hart' = process(hart, decoded.out.tag)
    /\ UNCHANGED <<word, decoded>>

DecIdle ==
    /\ word = NoWord
    /\ decoded = [fn |-> "none"]
    /\ hart = "runnable"

Init == CPUInit /\ DecIdle

Next ==
    \/ Step /\ UNCHANGED decVars
    \/ FetchPanic /\ UNCHANGED decVars
    \/ DumpRegisters /\ UNCHANGED decVars

Spec == Init /\ [][Next]_vars

\* The decoder on its own: the CPU holds an empty image and does not run.
DecodeInit ==
    /\ dram = <<>>
    /\ regs = CPUNew
    /\ pc = 0
    /\ instruction = NoWord
    /\ at = "loop"
    /\ steps = 0
    /\ word \in DecodeWords
    /\ decoded = [fn |-> "none"]
    /\ hart = "runnable"

DecodeNext ==
    \/ Classify /\ UNCHANGED cpuVars
    \/ ExtractR /\ UNCHANGED cpuVars
    \/ ExtractI /\ UNCHANGED cpuVars
    \/ ExtractIS /\ UNCHANGED cpuVars
    \/ ExtractS /\ UNCHANGED cpuVars
    \/ ExtractB /\ UNCHANGED cpuVars
    \/ ExtractU /\ UNCHANGED cpuVars
    \/ ExtractJ /\ UNCHANGED cpuVars
    \/ ExtractExecute /\ UNCHANGED cpuVars
    \/ HartStep /\ UNCHANGED cpuVars
    \/ HartProcess /\ UNCHANGED cpuVars

DecodeSpec == DecodeInit /\ [][DecodeNext]_vars

(***************************************************************************)
(* Reference arithmetic used to state the properties.                      *)
(***************************************************************************)
\* a - b modulo 2^64, on limbs.
WrappingSub(a, b) ==
    LET d0 == a[1] - b[1]
        d1 == a[2] - b[2] + (d0 \div Limb)
        d2 == a[3] - b[3] + (d1 \div Limb)
        d3 == a[4] - b[4] + (d2 \div Limb)
    IN  <<d0 % Limb, d1 % Limb, d2 % Limb, d3 % Limb>>

\* a < b, both read as unsigned 64-bit values.
ULt(a, b) ==
    \E k \in 1..4 : a[k] < b[k] /\ \A j \in (k + 1)..4 : a[j] = b[j]

\* a < b, both read as signed 64-bit values.
SLt(a, b) ==
    LET na == a[4] >= 32768
        nb == b[4] >= 32768
    IN  IF na # nb THEN na ELSE ULt(a, b)

\* The comparison a branch's funct3 selects (BEQ BNE BLT BGE BLTU BGEU).
BranchTaken(f3, a, b) ==
    CASE f3 = 0 -> a = b
      [] f3 = 1 -> a # b
      [] f3 = 4 -> SLt(a, b)
      [] f3 = 5 -> ~SLt(a, b)
      [] f3 = 6 -> ULt(a, b)
      [] f3 = 7 -> ~ULt(a, b)
      [] OTHER  -> FALSE

RECURSIVE FieldValue(_, _)
\* The value of the bits f[0..n], f[k] weighing 2^k.
FieldValue(f, n) == IF n < 0 THEN 0 ELSE f[n] * Pow2(n) + FieldValue(f, n - 1)

\* The two's-complement value of the n-bit field f[0..n-1].
Signed(f, n) == FieldValue(f, n - 2) - f[n - 1] * Pow2(n - 1)

\* The fields of the formats, bit by bit, as the architecture lays them out.
RefImmI(w) == Signed([k \in 0..11 |-> w[20 + k]], 12)

RefImmS(w) == Signed([k \in 0..11 |-> IF k < 5 THEN w[7 + k] ELSE w[20 + k]], 12)

RefImmB(w) ==
    Signed([k \in 0..12 |-> CASE k = 0       -> 0
                              [] k \in 1..4  -> w[7 + k]
                              [] k \in 5..10 -> w[20 + k]
                              [] k = 11      -> w[7]
                              [] k = 12      -> w[31]], 13)

RefImmJ(w) ==
    Signed([k \in 0..20 |-> CASE k = 0        -> 0
                              [] k \in 1..10  -> w[20 + k]
                              [] k = 11       -> w[20]
                              [] k \in 12..19 -> w[k]
                              [] k = 20       -> w[31]], 21)

RefImmU(w) ==
    (FieldValue([k \in 0..30 |-> IF k < 12 THEN 0 ELSE w[k]], 30)
        - w[31] * Pow2(30)) - w[31] * Pow2(30)

\* The word a Step is about to fetch and execute.
Fetched == fetch(dram, pc)

(***************************************************************************)
(* C1.  Register x0 reads 0 in every reachable state: after every step,    *)
(* a step whose rd is 0 included, and in the state dump_registers prints.  *)
(***************************************************************************)
C1_ZeroRegisterReadsZero == regs[0] = U64(0)

(***************************************************************************)
(* C2.  Decoding a word whose opcode is unassigned (0b1111111) yields an   *)
(* illegal-instruction fault as a value; the process does not panic.       *)
(***************************************************************************)
C2_UnknownOpcodeIsFaultValue ==
    (decoded.fn = "Instruction" /\ opcode(word) = 127)
        => decoded.out.tag = "IllegalInstruction"

(***************************************************************************)
(* C3.  From a new CPU holding `addi x1, x0, 5; add x2, x2, x1`, after two *)
(* steps x2 holds 5 and pc = 8 (as claimed); x2 holds DRAM_SIZE + 5 and    *)
(* pc = 8 (as amended: CPU::new sets x2, the stack pointer, to DRAM_SIZE). *)
(***************************************************************************)
C3_Program == Image(<<ADDI_X1_X0_5, ADD_X2_X2_X1>>)

C3_TwoStepsAsClaimed ==
    (dram = C3_Program /\ steps = 2) => (regs[2] = U64(5) /\ pc = 8)

C3_TwoSteps ==
    (dram = C3_Program /\ steps = 2) => (regs[2] = U64(DRAM_SIZE + 5) /\ pc = 8)

C3_Witness ==
    /\ dram = C3_Program
    /\ steps = 2
    /\ instruction = ADD_X2_X2_X1
    /\ regs[1] = U64(5)
    /\ regs[2] = U64(134217733)

(***************************************************************************)
(* C4.  The classifier sends every word with an assigned base opcode to    *)
(* the format of the table: LUI, AUIPC to U; JAL to J; JALR, loads to I;   *)
(* branches to B; stores to S; register-register to R; immediate           *)
(* arithmetic to I unless funct3 is 1 or 5.  0xFFF00293 decodes to I with  *)
(* opcode 0b0010011, rs1 = 0, rd = 5, imm = -1.                            *)
(***************************************************************************)
C4_Table(op, f3) ==
    CASE op \in {55, 23}              -> {"U"}
      [] op = 111                     -> {"J"}
      [] op \in {103, 3}              -> {"I"}
      [] op = 99                      -> {"B"}
      [] op = 35                      -> {"S"}
      [] op = 51                      -> {"R"}
      [] op = 19 /\ f3 \notin {1, 5}  -> {"I"}
      [] OTHER -> {"R", "I", "S", "B", "U", "J", "NOP", "panic"}

C4_ClassifierTable ==
    decoded.fn = "Instruction" =>
        /\ decoded.out.tag \in C4_Table(opcode(word), funct3(word))
        /\ word = ADDI_X5_X0_M1 =>
               decoded.out = [tag |-> "I", fmt |-> [imm |-> -1, funct3 |-> 0, rs1 |-> 0,
                                                    rd |-> 5, opcode |-> 19]]

(***************************************************************************)
(* C5.  A step that executes a branch word at pc p leaves pc = p + 4 when  *)
(* the comparison funct3 selects fails and pc = p + imm when it holds.     *)
(***************************************************************************)
C5_BranchSetsPc ==
    [][(Step /\ opcode(Fetched) = 99) =>
          LET b == BFormatFrom(Fetched)
          IN  pc' = IF BranchTaken(b.funct3, regs[b.rs1], regs[b.rs2])
                    THEN pc + b.imm ELSE pc + 4]_vars

(***************************************************************************)
(* C6.  A fetch whose four bytes are not all inside the store is reported  *)
(* as a fault value: the process never aborts on fetch.                    *)
(***************************************************************************)
C6_FetchNeverAborts == at # "panicked"

(***************************************************************************)
(* C7.  The immediates of the B and of the J extractor are even, for       *)
(* every word and both values of its bit 31.                               *)
(***************************************************************************)
C7_EvenOffsets ==
    /\ decoded.fn = "BFormat" => decoded.out.imm % 2 = 0
    /\ decoded.fn = "JFormat" => decoded.out.imm % 2 = 0

C7_Witness ==
    /\ decoded.fn = "BFormat"
    /\ word[31] = 1
    /\ word[7] = 1
    /\ decoded.out.imm < 0

(***************************************************************************)
(* C8.  A word with the fence opcode 0b0001111 or the system opcode        *)
(* 0b1110011 is classified as the inert NOP variant, not a format and not  *)
(* a failure.                                                              *)
(***************************************************************************)
C8_InertIsNop ==
    (decoded.fn = "Instruction" /\ opcode(word) \in {15, 115})
        => decoded.out = [tag |-> "NOP", fmt |-> word]

(***************************************************************************)
(* C9.  Every extractor's immediate is the two's-complement value of its   *)
(* reassembled field: I and S 12 bits, B 13 bits, J 21 bits, U the word    *)
(* with its low 12 bits cleared (so a multiple of 4096); that is, the      *)
(* unsigned field less 2^width exactly when bit 31 is set.                 *)
(***************************************************************************)
C9_Immediates ==
    /\ decoded.fn = "IFormat" => decoded.out.imm = RefImmI(word)
    /\ decoded.fn = "SFormat" => decoded.out.imm = RefImmS(word)
    /\ decoded.fn = "BFormat" => decoded.out.imm = RefImmB(word)
    /\ decoded.fn = "JFormat" => decoded.out.imm = RefImmJ(word)
    /\ decoded.fn = "UFormat" =>
           /\ decoded.out.imm = RefImmU(word)
           /\ decoded.out.imm % 4096 = 0

C9_Witness ==
    /\ decoded.fn = "JFormat"
    /\ word[31] = 1
    /\ word[20] = 1
    /\ decoded.out.imm = -2

(***************************************************************************)
(* C10.  A step that executes an R-format word performs the operation its  *)
(* (funct3, funct7) selects, writes it to rd and advances pc by 4: SUB     *)
(* (funct3 = 0, funct7 = 0b0100000) writes rs1 - rs2, ADD writes rs1 + rs2.*)
(***************************************************************************)
C10_RegisterRegister ==
    [][(Step /\ opcode(Fetched) = 51 /\ RFormatFrom(Fetched).funct3 = 0
             /\ regs[0] = U64(0) /\ RFormatFrom(Fetched).rd # 0) =>
          LET r == RFormatFrom(Fetched)
          IN  /\ pc' = pc + 4
              /\ r.funct7 = 0  => regs'[r.rd] = wrapping_add(regs[r.rs1], regs[r.rs2])
              /\ r.funct7 = 32 => regs'[r.rd] = WrappingSub(regs[r.rs1], regs[r.rs2])]_vars

(***************************************************************************)
(* C11.  The two decode paths agree on every word: the 64-bit immediate    *)
(* CPU::execute computes for addi is the sign-extension of IFormat's imm,  *)
(* and the rd, rs1, rs2 it extracts are those of the R and I extractors,   *)
(* each in 0..31.                                                          *)
(***************************************************************************)
C11_DecodePathsAgree ==
    decoded.fn = "execute" =>
        LET e == decoded.out
            i == IFormatFrom(word)
            r == RFormatFrom(word)
        IN  /\ e.imm = I64AsU64(i.imm)
            /\ e.rd = r.rd /\ e.rd = i.rd
            /\ e.rs1 = r.rs1 /\ e.rs1 = i.rs1
            /\ e.rs2 = r.rs2
            /\ {e.rd, e.rs1, e.rs2, r.rd, r.rs1, r.rs2, i.rd, i.rs1} \subseteq 0..31

C11_Witness ==
    /\ decoded.fn = "execute"
    /\ word = ADDI_X5_X0_M1
    /\ decoded.out = [imm |-> <<65535, 65535, 65535, 65535>>, rd |-> 5, rs1 |-> 0, rs2 |-> 31]
    /\ IFormatFrom(word).imm = -1

(***************************************************************************)
(* C12.  For every image the loop terminates: pc starts at 0 and grows by  *)
(* exactly 4 per iteration, each iteration executes the word at the pc the *)
(* previous one left, and the loop is exited (never aborted) with          *)
(* pc >= the image's length.                                               *)
(***************************************************************************)
C12_LoopExits ==
    /\ pc = 4 * steps
    /\ (steps > 0 /\ at # "panicked") => instruction = fetch(dram, pc - 4)
    /\ at = "done" => pc >= Len(dram)
    /\ at # "panicked"
    /\ at = "loop" => ENABLED Next

\* The same, of the images made of whole words only.
C12_WholeWordImagesExit == (Len(dram) % 4 = 0) => C12_LoopExits

====
